---- MODULE Spec2Model ----
(***************************************************************************)
(* Model of the trading session orchestrator                               *)
(* (src/services/TradingSessionManager.js) together with the risk manager  *)
(* (src/services/RiskManager.js), the trading engine's staking function    *)
(* (src/unnamed/part_002) and the venue stub                               *)
(* (src/services/derivApiService.js).                                      *)
(*                                                                         *)
(* Scheduling: Node's single thread.  One action is one macrotask: the     *)
(* code that runs from the delivery of an event (a tick, a timer, the      *)
(* answer of the venue or of the store) up to the next await of an         *)
(* external answer.  The promise reactions that processTradeQueue chains   *)
(* on executeTrade (.then/.catch/.finally) are microtasks: they are kept   *)
(* in the FIFO `micro`, and no macrotask is delivered while it is          *)
(* non-empty.                                                              *)
(*                                                                         *)
(* Store: MongoDB multi-document transactions as the driver documents      *)
(* them.  A transaction's writes are visible to others at commit; a        *)
(* transactional write to a document that another open transaction has     *)
(* written, or that changed after the transaction's snapshot, raises a     *)
(* write conflict, on which withTransaction aborts and runs its callback   *)
(* again; a write outside a transaction waits for a transaction that has   *)
(* written the document.                                                   *)
(*                                                                         *)
(* Feed: connectMarketData builds the feed by the name MarketDataStream,   *)
(* which the orchestrator's file does not import.  Both outcomes are       *)
(* modelled: the name resolves in the host and the listeners are attached  *)
(* (StartCommitted), or the call throws after the commit (StartFailed).    *)
(* The feed object itself (src/services/MarketDataStream.js) is modelled   *)
(* on its own, with its owner's calls, in SpecStream.                      *)
(***************************************************************************)
EXTENDS Integers, Sequences, FiniteSets, TLC

\* ------------------------------------------------------------ bounds
\* The environment's budget of events is drawn from two profiles: a burst of
\* MaxTicks ticks in one session, and RestartTicks ticks over MaxStarts calls of
\* startSession (a session restarted on the same instance).
MaxTicks == 3
RestartTicks == 2
MaxConcurrent == 2
MaxStarts == 2
MaxStopCalls == 1
MaxFailures == 1
\* wait cycles of stopSession's drain loop (the code's 10, line 163, scaled down)
WaitCycleLimit == 2
MaxTimers == 2

\* ------------------------------------------------------------ configuration
\* The caller's config object.  Stake and multiplier are those of
\* test-session-manager.js; balance and risk limits are chosen small so that a
\* risk stop happens within the tick budget.
InitialBalance == 100
BaseStake == 10
MartingaleMultiplier == 2
MaxConsecutiveLosses == 2
DailyLossLimitPercent == 50
MaxWaitCycles == WaitCycleLimit
PayoutFactor == 2

JobIds == 1..(IF MaxTicks > RestartTicks THEN MaxTicks ELSE RestartTicks)
StartIds == 1..MaxStarts
SessionIds == 1..MaxStarts

CallerReasons == {"user_request", "emergency_system_shutdown", "test_duration_elapsed"}

\* One session and a burst of ticks.
BurstProfile ==
  [ticks |-> MaxTicks, starts |-> 1, stopCalls |-> MaxStopCalls,
   failures |-> MaxFailures, serial |-> TRUE, initialBalance |-> InitialBalance]

\* Several startSession calls on the same instance; `serial` callers call
\* startSession only when no startSession or stopSession call is in progress.
RestartProfile(serial) ==
  [ticks |-> RestartTicks, starts |-> MaxStarts, stopCalls |-> MaxStopCalls,
   failures |-> MaxFailures, serial |-> serial, initialBalance |-> InitialBalance]

\* One session whose configured initial balance is below the base stake.
PoorProfile == [BurstProfile EXCEPT !.initialBalance = BaseStake - 1]

\* One session whose configured initial balance covers the base stake, and
\* after one lost base stake no longer covers the multiplied stake.
TightProfile ==
  [BurstProfile EXCEPT
     !.initialBalance = BaseStake * MartingaleMultiplier + BaseStake - 1]

\* One session whose configured initial balance covers one base stake and not
\* two.
ThinProfile ==
  [BurstProfile EXCEPT !.initialBalance = BaseStake + BaseStake - 1]

VARIABLES
  budget,          \* the environment's budget of ticks, calls and failures and the
                   \* configured initial balance (fixed)
  MAX_CONCURRENT_TRADES, \* this.MAX_CONCURRENT_TRADES, set by the constructor
  isActive,        \* this.isActive
  session,         \* this.session: the in-memory Session document (NoDoc = null)
  tradeQueue,      \* this.tradeQueue: sequence of job ids, oldest first
  currentTrades,   \* this.currentTrades
  lastTradeFailed, \* this.lastTradeFailed
  feedListening,   \* the tick/error listeners of connectMarketData are attached
  jobs,            \* one record per tick/job: position of its executeTrade call
  micro,           \* FIFO of jobs whose executeTrade promise settled (.finally pending)
  stops,           \* sequence of stopSession invocations
  starts,          \* startSession invocations
  dbSessions,      \* committed TradingSession collection: id -> document
  dbTrades,        \* committed Trade collection
  ticks,           \* number of ticks delivered so far
  failures,        \* number of store/venue/collaborator failures injected so far
  stopCalls,       \* number of stopSession calls by callers and the feed that ran
  stopDone,        \* history: the sessions for which a stopSession call ran to its end
                   \* since they became active
  refusedStop,     \* history: a stopSession call on a finalized session was ignored
  launched,        \* history: job ids in the order their execution was launched
  venueCalls,      \* history: job ids in the order the venue was called
  finalWrites,     \* history: per session, the finalizing updates stopSession applied
  limitCheck,      \* one call of RiskManager.checkSessionLimits: its argument and result
  evaluation,      \* one call of a stake evaluation: its arguments and result
  stream           \* one MarketDataStream object and the orchestrator's listeners on it

vars == <<budget, MAX_CONCURRENT_TRADES, isActive, session, tradeQueue, currentTrades, lastTradeFailed,
          feedListening, jobs, micro, stops, starts, dbSessions, dbTrades,
          ticks, failures, stopCalls, stopDone, refusedStop, launched,
          venueCalls, finalWrites, limitCheck, evaluation, stream>>

\* ------------------------------------------------------------ documents
NoDoc ==
  [id |-> 0, initial_balance |-> 0, final_balance |-> 0, total_trades |-> 0,
   winning_trades |-> 0, consecutive_losses |-> 0, status |-> "none",
   session_end |-> FALSE]

\* new TradingSession({...}) in startSession
NewSession(sid) ==
  [id |-> sid, initial_balance |-> budget.initialBalance,
   final_balance |-> budget.initialBalance,
   total_trades |-> 0, winning_trades |-> 0, consecutive_losses |-> 0,
   status |-> "active", session_end |-> FALSE]

\* dsid is an observation the code does not keep: the id of the session handle
\* at the moment executeTrade was called for the job.
IdleJob ==
  [pc |-> "idle", stake |-> 0, result |-> "none", payout |-> 0, tsid |-> 0,
   usid |-> 0, setCL |-> -1, txdoc |-> NoDoc, stale |-> FALSE, outcome |-> "none",
   failedAt |-> "none", dsid |-> 0]

IdleStart == [pc |-> "idle", sid |-> 0]

\* ------------------------------------------------------------ pure functions
RECURSIVE Pow(_, _)
\* Math.pow(martingaleMultiplier, currentConsecutiveLosses)
Pow(b, n) == IF n <= 0 THEN 1 ELSE b * Pow(b, n - 1)

Min(a, b) == IF a < b THEN a ELSE b

\* JavaScript values a stake can take: a finite number, NaN, undefined and a
\* non-numeric string.
Num(n) == [t |-> "number", v |-> n]
NaN == [t |-> "NaN", v |-> 0]
Undefined == [t |-> "undefined", v |-> 0]
Text == [t |-> "string", v |-> 0]

\* typeof x === 'number' (NaN is of type number)
TypeofNumber(x) == x.t \in {"number", "NaN"}

\* x <= n and x > n: every comparison with NaN, undefined or a non-numeric
\* string is false
LessOrEqual(x, n) == x.t = "number" /\ x.v <= n
GreaterThan(x, n) == x.t = "number" /\ x.v > n

\* Truthiness: 0, NaN and undefined are falsy
Truthy(x) == (x.t = "number" /\ x.v # 0) \/ x.t = "string"

\* Variant of applyMartingaleStrategyValue: the stake is multiplied whether or
\* not the last trade failed.
applyMartingaleStrategyAlways(ltf, consecutiveLosses, baseStake, multiplier) ==
  IF ~TypeofNumber(baseStake) \/ LessOrEqual(baseStake, 0)
    THEN (IF Truthy(baseStake) THEN baseStake ELSE Num(1))
    ELSE IF baseStake = NaN THEN NaN
           ELSE Num(baseStake.v * Pow(multiplier, consecutiveLosses))

\* TradingEngine.applyMartingaleStrategy for any value of baseStake; an invalid
\* base stake is answered with `baseStake || 1`
applyMartingaleStrategyValue(ltf, consecutiveLosses, baseStake, multiplier) ==
  IF ~TypeofNumber(baseStake) \/ LessOrEqual(baseStake, 0)
    THEN (IF Truthy(baseStake) THEN baseStake ELSE Num(1))
    ELSE IF baseStake = NaN THEN NaN
           ELSE IF ltf THEN Num(baseStake.v * Pow(multiplier, consecutiveLosses))
                       ELSE baseStake

\* TradingEngine.applyMartingaleStrategy, baseStake the number baseStake
applyMartingaleStrategy(ltf, consecutiveLosses, baseStake, multiplier) ==
  applyMartingaleStrategyValue(ltf, consecutiveLosses, Num(baseStake), multiplier).v

\* RiskManager.approveTrade(session, analysis) for any value of analysis.amount
approveTradeValue(sess, amount) ==
  /\ sess # NoDoc
  /\ TypeofNumber(amount)
  /\ ~LessOrEqual(amount, 0)
  /\ ~GreaterThan(amount, sess.final_balance)

\* RiskManager.approveTrade(session, analysis), analysis.amount the number amount
approveTrade(sess, amount) == approveTradeValue(sess, Num(amount))

\* Variant of checkSessionLimits: the loss counter compared with > .
checkSessionLimitsStrict(sess, maxLosses, lossPercent) ==
  IF maxLosses # 0 /\ sess.consecutive_losses > maxLosses
    THEN "stop"
    ELSE IF lossPercent # 0
              /\ (sess.initial_balance - sess.final_balance) * 100
                   >= sess.initial_balance * lossPercent
           THEN "stop"
           ELSE "continue"

\* RiskManager.checkSessionLimits; a limit of 0 is falsy and switches its check off
checkSessionLimits(sess, maxLosses, lossPercent) ==
  IF maxLosses # 0 /\ sess.consecutive_losses >= maxLosses
    THEN "stop"
    ELSE IF lossPercent # 0
              /\ (sess.initial_balance - sess.final_balance) * 100
                   >= sess.initial_balance * lossPercent
           THEN "stop"
           ELSE "continue"

TerminalStatuses == {"completed", "stopped_user", "stopped_auto"}

\* stopSession: the terminal status derived from the reason
FinalStatus(reason) ==
  IF reason \in {"risk_limit_breach", "market_data_error", "emergency_system_shutdown"}
    THEN "stopped_auto"
    ELSE IF reason = "user_request" THEN "stopped_user" ELSE "completed"

\* updateSessionStats: profitOrLoss
ProfitOrLoss(result, payout, stake) ==
  IF result = "win" THEN payout - stake ELSE 0 - stake

\* ------------------------------------------------------------ executeTrade, synchronous part
\* Variant of executeTradeSync: config.martingaleEnabled is false, the stake
\* is the analysis amount.
executeTradeSyncFlat(act, sess, ltf) ==
  IF ~act \/ sess = NoDoc
    THEN [IdleJob EXCEPT !.pc = "resolved", !.outcome = "aborted"]
    ELSE IF ~approveTrade(sess, BaseStake)
           THEN [IdleJob EXCEPT !.pc = "resolved", !.outcome = "rejected"]
           ELSE [IdleJob EXCEPT !.pc = "venue", !.stake = BaseStake, !.dsid = sess.id]

\* The code of executeTrade up to its first await (the venue call), as run by
\* processTradeQueue at launch: the job's record afterwards.
executeTradeSync(act, sess, ltf) ==
  IF ~act \/ sess = NoDoc
    THEN [IdleJob EXCEPT !.pc = "resolved", !.outcome = "aborted"]
    ELSE IF ~approveTrade(sess, BaseStake)
           THEN [IdleJob EXCEPT !.pc = "resolved", !.outcome = "rejected"]
           ELSE [IdleJob EXCEPT
                   !.pc = "venue",
                   !.stake = applyMartingaleStrategy(ltf, sess.consecutive_losses,
                                                     BaseStake, MartingaleMultiplier),
                   !.dsid = sess.id]

\* ------------------------------------------------------------ processTradeQueue
\* Variant of SettledAtOnce: a call that returns before its first await leaves
\* no reaction behind.
SettledNever(job) == FALSE

\* executeTrade returned before its first await: its promise is already
\* resolved and the .finally reaction is queued at once.
SettledAtOnce(job) == job.pc = "resolved"

\* Variant of DispatchCount: the loop tests currentTrades <= MAX_CONCURRENT_TRADES.
DispatchCountOffByOne(q, ct) ==
  IF ct <= MAX_CONCURRENT_TRADES THEN Min(Len(q), MAX_CONCURRENT_TRADES + 1 - ct) ELSE 0

\* Number of jobs one call of processTradeQueue shifts off the queue.
DispatchCount(q, ct) ==
  IF ct < MAX_CONCURRENT_TRADES THEN Min(Len(q), MAX_CONCURRENT_TRADES - ct) ELSE 0

\* Variant of ShiftJobs: tradeQueue.pop(), the newest job first.
PopJobs(q, n) ==
  [head |-> [i \in 1..n |-> q[Len(q) + 1 - i]], rest |-> SubSeq(q, 1, Len(q) - n)]

\* tradeQueue.shift(), n times: the n oldest jobs in order, and the rest.
ShiftJobs(q, n) == [head |-> SubSeq(q, 1, n), rest |-> SubSeq(q, n + 1, Len(q))]

\* Variant of processTradeQueue: the in-flight count is incremented only for
\* the jobs whose executeTrade reaches the venue call.
processTradeQueueUncounted(q, ct, js, mq, act, sess, ltf) ==
  LET n == DispatchCount(q, ct)
      sh == ShiftJobs(q, n)
      head == sh.head
      started == executeTradeSync(act, sess, ltf)
      headSet == {head[i] : i \in 1..n}
  IN [queue |-> sh.rest,
      current |-> IF started.pc = "venue" THEN ct + n ELSE ct,
      jobs |-> [j \in JobIds |-> IF j \in headSet THEN started ELSE js[j]],
      micro |-> IF SettledAtOnce(started) THEN mq \o head ELSE mq,
      launched |-> head,
      venue |-> IF started.pc = "venue" THEN head ELSE <<>>]

\* The while loop of processTradeQueue on queue q with ct trades in flight.
\* executeTrade's synchronous part reads isActive, session and lastTradeFailed,
\* none of which the loop changes, so every job launched by one call sees the
\* same values.
processTradeQueue(q, ct, js, mq, act, sess, ltf) ==
  LET n == DispatchCount(q, ct)
      sh == ShiftJobs(q, n)
      head == sh.head
      started == executeTradeSync(act, sess, ltf)
      headSet == {head[i] : i \in 1..n}
  IN [queue |-> sh.rest,
      current |-> ct + n,
      jobs |-> [j \in JobIds |-> IF j \in headSet THEN started ELSE js[j]],
      micro |-> IF SettledAtOnce(started) THEN mq \o head ELSE mq,
      launched |-> head,
      venue |-> IF started.pc = "venue" THEN head ELSE <<>>]

\* ------------------------------------------------------------ stopSession
SeqToSet(q) == {q[i] : i \in 1..Len(q)}

StopInProgress(stps) == \E i \in 1..Len(stps) : stps[i].pc \in {"wait", "update"}

\* The code of stopSession after its wait loop, up to the await of the
\* finalizing findByIdAndUpdate: closeOpenTrades (a stub), the feed is
\* disconnected and its listeners removed, the engine is stopped, the final
\* balance is read from the in-memory handle and the terminal status derived.
\* With no session document the procedure ends here.
StopFinalizeIssue(st, sess) ==
  IF sess # NoDoc
    THEN [st EXCEPT !.pc = "update", !.sid = sess.id,
                    !.finalBalance = sess.final_balance]
    ELSE [st EXCEPT !.pc = "done"]

\* The stop records still in progress: a finished call leaves no state behind.
Running(stps) == SelectSeq(stps, LAMBDA st : st.pc \in {"wait", "update"})

\* stopSession without the clearing of the pending queue (lines 151-154).
stopSessionKeepingQueue(reason, act, sess, q, ct, stps) ==
  IF ~act /\ sess.status # "active"
    THEN [ran |-> FALSE, isActive |-> act, queue |-> q, stops |-> stps,
          detach |-> FALSE]
    ELSE LET st == [pc |-> "wait", reason |-> reason, waitCycles |-> 0, sid |-> 0,
                    finalBalance |-> 0, late |-> (sess.id \in stopDone)]
         IN [ran |-> TRUE, isActive |-> FALSE, queue |-> q,
             stops |-> Running(Append(stps, IF ct > 0 THEN st
                                                     ELSE StopFinalizeIssue(st, sess))),
             detach |-> ~(ct > 0)]

\* stopSession(reason) from its entry to its first await; `ct` is
\* this.currentTrades at the call.  Returns whether the call went past the entry
\* guard, the new active flag, queue and stop records, and whether the call
\* already went past its wait loop (and so removed the feed's listeners).  The
\* record's `late` field is history: an earlier call for the same session had
\* already run to its end.
stopSessionSync(reason, act, sess, q, ct, stps) ==
  IF ~act /\ sess.status # "active"
    THEN [ran |-> FALSE, isActive |-> act, queue |-> q, stops |-> stps,
          detach |-> FALSE]
    ELSE LET st == [pc |-> "wait", reason |-> reason, waitCycles |-> 0, sid |-> 0,
                    finalBalance |-> 0, late |-> (sess.id \in stopDone)]
         IN [ran |-> TRUE, isActive |-> FALSE, queue |-> <<>>,
             stops |-> Running(Append(stps, IF ct > 0 THEN st
                                                     ELSE StopFinalizeIssue(st, sess))),
             detach |-> ~(ct > 0)]

\* The jobs that a stopSession call discards from the pending queue.
DropQueued(js, q, r) ==
  [j \in JobIds |-> IF j \in SeqToSet(q) \ SeqToSet(r.queue)
                      THEN [js[j] EXCEPT !.pc = "dropped"]
                      ELSE js[j]]

\* ------------------------------------------------------------ initial state
\* The state after the constructor; config.max_concurrent_trades is drawn from
\* 1..MaxConcurrent.
Constructed(profiles) ==
  /\ budget \in profiles
  /\ MAX_CONCURRENT_TRADES \in 1..MaxConcurrent
  /\ isActive = FALSE
  /\ session = NoDoc
  /\ tradeQueue = <<>>
  /\ currentTrades = 0
  /\ lastTradeFailed = FALSE
  /\ feedListening = FALSE
  /\ jobs = [j \in JobIds |-> IdleJob]
  /\ micro = <<>>
  /\ stops = <<>>
  /\ starts = [i \in StartIds |-> IdleStart]
  /\ dbSessions = [s \in SessionIds |-> NoDoc]
  /\ dbTrades = {}
  /\ ticks = 0
  /\ failures = 0
  /\ stopCalls = 0
  /\ stopDone = {}
  /\ refusedStop = FALSE
  /\ launched = <<>>
  /\ venueCalls = <<>>
  /\ finalWrites = [s \in SessionIds |-> 0]

\* No evaluation of the session limits is under observation.
NoCheck ==
  [state |-> NoDoc, max_consecutive_losses |-> 0,
   daily_loss_limit_percentage |-> 0, verdict |-> "none"]

\* No stake evaluation is under observation.
NoEvaluation == [fn |-> "none"]

\* No MarketDataStream object is under observation.
NoStream == [made |-> FALSE]

InitWith(profiles) ==
  /\ Constructed(profiles)
  /\ limitCheck = NoCheck
  /\ evaluation = NoEvaluation
  /\ stream = NoStream

Init == InitWith({BurstProfile, RestartProfile(FALSE)})

\* No promise reaction is pending: the event loop may deliver the next event.
Quiet == micro = <<>>

\* ------------------------------------------------------------ startSession
\* Variant of AlreadyActive: startSession without its guard.
NeverAlreadyActive(act) == FALSE

\* The guard of startSession (line 52).
AlreadyActive(act) == act

\* How the promise returned by startSession is settled: every path of the
\* function (the guard's return, the end of the try block, the catch block,
\* which does not rethrow) resolves it with undefined.
startSessionOutcome(pc) ==
  IF pc \in {"idle", "save", "commit"} THEN "pending" ELSE "resolved"

\* startSession() from its call to the await of this.session.save(): the
\* already-active guard, then the transaction callback replaces this.session
\* by a fresh document.
StartCall(i) ==
  /\ Quiet
  /\ i <= budget.starts
  /\ budget.serial => /\ stops = <<>>
                      /\ \A k \in StartIds : starts[k].pc \notin {"save", "commit"}
  /\ starts[i].pc = "idle"
  /\ \A k \in StartIds : k < i => starts[k].pc # "idle"
  /\ IF AlreadyActive(isActive)
       THEN /\ starts' = [starts EXCEPT ![i].pc = "refused"]
            /\ UNCHANGED session
       ELSE /\ starts' = [starts EXCEPT ![i] = [pc |-> "save", sid |-> i]]
            /\ session' = NewSession(i)
  /\ UNCHANGED <<stream, evaluation, limitCheck, budget, MAX_CONCURRENT_TRADES, isActive, tradeQueue, currentTrades, lastTradeFailed, feedListening,
                 jobs, micro, stops, dbSessions, dbTrades, ticks, failures,
                 stopCalls, stopDone, refusedStop, launched, venueCalls, finalWrites>>

\* The save inside the transaction succeeded and tradingEngine.start() returned:
\* withTransaction goes on to commit.
StartSaved(i) ==
  /\ Quiet
  /\ starts[i].pc = "save"
  /\ starts' = [starts EXCEPT ![i].pc = "commit"]
  /\ UNCHANGED <<stream, evaluation, limitCheck, budget, MAX_CONCURRENT_TRADES, isActive, session, tradeQueue, currentTrades, lastTradeFailed,
                 feedListening, jobs, micro, stops, dbSessions, dbTrades, ticks,
                 failures, stopCalls, stopDone, refusedStop, launched, venueCalls, finalWrites>>

\* The transaction committed; connectMarketData attached the listeners and the
\* instance became active.
StartCommitted(i) ==
  /\ Quiet
  /\ starts[i].pc = "commit"
  /\ starts' = [starts EXCEPT ![i].pc = "done"]
  /\ dbSessions' = [dbSessions EXCEPT ![starts[i].sid] = NewSession(starts[i].sid)]
  /\ feedListening' = TRUE
  /\ isActive' = TRUE
  /\ stopDone' = stopDone \ {starts[i].sid}
  /\ UNCHANGED <<stream, evaluation, limitCheck, budget, MAX_CONCURRENT_TRADES, session, tradeQueue, currentTrades, lastTradeFailed, jobs, micro,
                 stops, dbTrades, ticks, failures, stopCalls, refusedStop, launched, venueCalls,
                 finalWrites>>

\* A step of startSession failed (the save, tradingEngine.start(), the commit or
\* connectMarketData): the catch block clears the active flag; this.session keeps
\* the document because it already has an _id.  A failure after the commit
\* (connectMarketData) leaves the committed document behind.
StartFailed(i) ==
  /\ Quiet
  /\ starts[i].pc \in {"save", "commit"}
  /\ failures < budget.failures
  /\ failures' = failures + 1
  /\ starts' = [starts EXCEPT ![i].pc = "failed"]
  /\ isActive' = FALSE
  /\ \/ UNCHANGED dbSessions
     \/ /\ starts[i].pc = "commit"
        /\ dbSessions' = [dbSessions EXCEPT ![starts[i].sid] = NewSession(starts[i].sid)]
  /\ UNCHANGED <<stream, evaluation, limitCheck, budget, MAX_CONCURRENT_TRADES, session, tradeQueue, currentTrades, lastTradeFailed, feedListening,
                 jobs, micro, stops, dbTrades, ticks, stopCalls, stopDone, refusedStop, launched,
                 venueCalls, finalWrites>>

\* ------------------------------------------------------------ ticks
\* Variant of HandleTick: a tick that arrives while the in-flight count is at
\* the maximum is discarded instead of being queued.
HandleTickWhenFree ==
  /\ Quiet
  /\ feedListening
  /\ ticks < budget.ticks
  /\ ticks' = ticks + 1
  /\ LET j == ticks + 1 IN
     IF isActive /\ session # NoDoc /\ currentTrades < MAX_CONCURRENT_TRADES
       THEN LET r == processTradeQueue(Append(tradeQueue, j), currentTrades,
                                       [jobs EXCEPT ![j].pc = "queued"], micro,
                                       isActive, session, lastTradeFailed)
            IN /\ tradeQueue' = r.queue
               /\ currentTrades' = r.current
               /\ jobs' = r.jobs
               /\ micro' = r.micro
               /\ launched' = launched \o r.launched
               /\ venueCalls' = venueCalls \o r.venue
       ELSE /\ jobs' = [jobs EXCEPT ![j].pc = "ignored"]
            /\ UNCHANGED <<tradeQueue, currentTrades, micro, launched, venueCalls>>
  /\ UNCHANGED <<stream, evaluation, limitCheck, budget, MAX_CONCURRENT_TRADES, isActive, session, lastTradeFailed, feedListening, stops, starts,
                 dbSessions, dbTrades, failures, stopCalls, stopDone, refusedStop, finalWrites>>

\* Variant of HandleTick: the tick is queued whenever a session handle exists,
\* whether or not the instance is active.
HandleTickUnguarded ==
  /\ Quiet
  /\ feedListening
  /\ ticks < budget.ticks
  /\ ticks' = ticks + 1
  /\ LET j == ticks + 1 IN
     IF session # NoDoc
       THEN LET r == processTradeQueue(Append(tradeQueue, j), currentTrades,
                                       [jobs EXCEPT ![j].pc = "queued"], micro,
                                       isActive, session, lastTradeFailed)
            IN /\ tradeQueue' = r.queue
               /\ currentTrades' = r.current
               /\ jobs' = r.jobs
               /\ micro' = r.micro
               /\ launched' = launched \o r.launched
               /\ venueCalls' = venueCalls \o r.venue
       ELSE /\ jobs' = [jobs EXCEPT ![j].pc = "ignored"]
            /\ UNCHANGED <<tradeQueue, currentTrades, micro, launched, venueCalls>>
  /\ UNCHANGED <<stream, evaluation, limitCheck, budget, MAX_CONCURRENT_TRADES, isActive, session, lastTradeFailed, feedListening, stops, starts,
                 dbSessions, dbTrades, failures, stopCalls, stopDone, refusedStop, finalWrites>>

\* The feed's 'tick' listener and handleTick: a tick is analysed and queued only
\* while the instance is active; the engine's analyze() always returns an
\* analysis, so every handled tick is queued and processTradeQueue is called.
HandleTick ==
  /\ Quiet
  /\ feedListening
  /\ ticks < budget.ticks
  /\ ticks' = ticks + 1
  /\ LET j == ticks + 1 IN
     IF isActive /\ session # NoDoc
       THEN LET r == processTradeQueue(Append(tradeQueue, j), currentTrades,
                                       [jobs EXCEPT ![j].pc = "queued"], micro,
                                       isActive, session, lastTradeFailed)
            IN /\ tradeQueue' = r.queue
               /\ currentTrades' = r.current
               /\ jobs' = r.jobs
               /\ micro' = r.micro
               /\ launched' = launched \o r.launched
               /\ venueCalls' = venueCalls \o r.venue
       ELSE /\ jobs' = [jobs EXCEPT ![j].pc = "ignored"]
            /\ UNCHANGED <<tradeQueue, currentTrades, micro, launched, venueCalls>>
  /\ UNCHANGED <<stream, evaluation, limitCheck, budget, MAX_CONCURRENT_TRADES, isActive, session, lastTradeFailed, feedListening, stops, starts,
                 dbSessions, dbTrades, failures, stopCalls, stopDone, refusedStop, finalWrites>>

\* Variant of JobFinally: the reaction decrements the in-flight count and does
\* not call processTradeQueue.
JobFinallyNoDispatch ==
  /\ micro # <<>>
  /\ currentTrades' = currentTrades - 1
  /\ jobs' = [jobs EXCEPT ![Head(micro)].pc = "done"]
  /\ micro' = Tail(micro)
  /\ UNCHANGED <<stream, evaluation, limitCheck, budget, MAX_CONCURRENT_TRADES, isActive, session,
                 tradeQueue, lastTradeFailed, feedListening, stops, starts, dbSessions,
                 dbTrades, ticks, failures, stopCalls, stopDone, refusedStop, launched,
                 venueCalls, finalWrites>>

\* The .finally reaction of processTradeQueue for the job at the head of the
\* microtask queue: the in-flight count is decremented and, if jobs are pending
\* and a slot is free, processTradeQueue runs again.
JobFinally ==
  /\ micro # <<>>
  /\ LET j == Head(micro)
         ct == currentTrades - 1
         js == [jobs EXCEPT ![j].pc = "done"]
     IN IF Len(tradeQueue) > 0 /\ ct < MAX_CONCURRENT_TRADES
          THEN LET r == processTradeQueue(tradeQueue, ct, js, Tail(micro),
                                          isActive, session, lastTradeFailed)
               IN /\ tradeQueue' = r.queue
                  /\ currentTrades' = r.current
                  /\ jobs' = r.jobs
                  /\ micro' = r.micro
                  /\ launched' = launched \o r.launched
                  /\ venueCalls' = venueCalls \o r.venue
          ELSE /\ currentTrades' = ct
               /\ jobs' = js
               /\ micro' = Tail(micro)
               /\ UNCHANGED <<tradeQueue, launched, venueCalls>>
  /\ UNCHANGED <<stream, evaluation, limitCheck, budget, MAX_CONCURRENT_TRADES, isActive, session, lastTradeFailed, feedListening, stops, starts,
                 dbSessions, dbTrades, ticks, failures, stopCalls, stopDone, refusedStop, finalWrites>>

\* ------------------------------------------------------------ executeTrade, asynchronous part
\* recordTrade up to the await of Trade.create: the trade's session_id is read
\* from the in-memory handle at this point.  Also the start of each run of the
\* withTransaction callback.
recordTradeIssue(job, sess) ==
  [job EXCEPT !.pc = "create", !.tsid = sess.id, !.usid = 0, !.setCL = -1,
              !.txdoc = NoDoc, !.stale = FALSE]

\* The venue answered with a trade result; the transaction is opened and
\* recordTrade issues the insert.
VenueReturn(j, res) ==
  /\ Quiet
  /\ jobs[j].pc = "venue"
  /\ jobs' = [jobs EXCEPT ![j] =
       recordTradeIssue([jobs[j] EXCEPT
                           !.result = res,
                           !.payout = IF res = "win" THEN jobs[j].stake * PayoutFactor
                                                     ELSE 0],
                        session)]
  /\ UNCHANGED <<stream, evaluation, limitCheck, budget, MAX_CONCURRENT_TRADES, isActive, session, tradeQueue, currentTrades, lastTradeFailed,
                 feedListening, micro, stops, starts, dbSessions, dbTrades, ticks,
                 failures, stopCalls, stopDone, refusedStop, launched, venueCalls, finalWrites>>

\* Variant of VenueFail: the failed job is put back on the queue.
VenueFailRequeue(j) ==
  /\ Quiet
  /\ jobs[j].pc = "venue"
  /\ failures < budget.failures
  /\ failures' = failures + 1
  /\ jobs' = [jobs EXCEPT ![j] = [IdleJob EXCEPT !.pc = "resolved",
                                                 !.outcome = "venue_error"]]
  /\ micro' = Append(micro, j)
  /\ tradeQueue' = Append(tradeQueue, j)
  /\ UNCHANGED <<stream, evaluation, limitCheck, budget, MAX_CONCURRENT_TRADES, isActive, session,
                 currentTrades, lastTradeFailed, feedListening, stops, starts, dbSessions,
                 dbTrades, ticks, stopCalls, stopDone, refusedStop, launched, venueCalls,
                 finalWrites>>

\* The venue call raised an error or timed out: executeTrade rethrows, nothing
\* is written.
VenueFail(j) ==
  /\ Quiet
  /\ jobs[j].pc = "venue"
  /\ failures < budget.failures
  /\ failures' = failures + 1
  /\ jobs' = [jobs EXCEPT ![j] = [IdleJob EXCEPT !.pc = "resolved",
                                                 !.outcome = "venue_error"]]
  /\ micro' = Append(micro, j)
  /\ UNCHANGED <<stream, evaluation, limitCheck, budget, MAX_CONCURRENT_TRADES, isActive, session, tradeQueue, currentTrades, lastTradeFailed,
                 feedListening, stops, starts, dbSessions, dbTrades, ticks,
                 stopCalls, stopDone, refusedStop, launched, venueCalls, finalWrites>>

\* Trade.create succeeded inside the transaction (the transaction's snapshot is
\* taken here); updateSessionStats computes its update from the in-memory handle
\* and issues findByIdAndUpdate.
TradeCreated(j) ==
  /\ Quiet
  /\ jobs[j].pc = "create"
  /\ jobs' = [jobs EXCEPT
       ![j].pc = "update",
       ![j].usid = session.id,
       ![j].setCL = IF jobs[j].result = "win" THEN 0
                    ELSE session.consecutive_losses + 1,
       ![j].stale = FALSE]
  /\ UNCHANGED <<stream, evaluation, limitCheck, budget, MAX_CONCURRENT_TRADES, isActive, session, tradeQueue, currentTrades, lastTradeFailed,
                 feedListening, micro, stops, starts, dbSessions, dbTrades, ticks,
                 failures, stopCalls, stopDone, refusedStop, launched, venueCalls, finalWrites>>

\* Another open transaction has written the session document sid.
LockedByOther(js, j, sid) ==
  \E k \in JobIds : /\ k # j
                    /\ js[k].pc \in {"save", "commit"}
                    /\ js[k].txdoc # NoDoc
                    /\ js[k].usid = sid

\* findByIdAndUpdate answered inside the transaction.
\*  - write conflict: withTransaction aborts and runs the callback again;
\*  - no such document: updateSessionStats logs and returns, the callback ends
\*    and withTransaction goes on to commit the insert alone;
\*  - otherwise the returned document gets final_balance += profitOrLoss in
\*    memory and save() is issued.
SessionUpdated(j) ==
  /\ Quiet
  /\ jobs[j].pc = "update"
  /\ LET job == jobs[j]
         doc == dbSessions[job.usid]
         upd == [doc EXCEPT
                   !.total_trades = @ + 1,
                   !.winning_trades = @ + (IF job.result = "win" THEN 1 ELSE 0),
                   !.consecutive_losses = job.setCL,
                   !.final_balance = @ + ProfitOrLoss(job.result, job.payout, job.stake)]
     IN jobs' = [jobs EXCEPT ![j] =
          IF job.stale \/ LockedByOther(jobs, j, job.usid)
            THEN recordTradeIssue(job, session)
            ELSE IF doc = NoDoc
                   THEN [job EXCEPT !.pc = "commit"]
                   ELSE [job EXCEPT !.pc = "save", !.txdoc = upd]]
  /\ UNCHANGED <<stream, evaluation, limitCheck, budget, MAX_CONCURRENT_TRADES, isActive, session, tradeQueue, currentTrades, lastTradeFailed,
                 feedListening, micro, stops, starts, dbSessions, dbTrades, ticks,
                 failures, stopCalls, stopDone, refusedStop, launched, venueCalls, finalWrites>>

\* checkRiskLimits, called by updateSessionStats once this.session holds the
\* updated document: on a breach stopSession('risk_limit_breach') is called
\* without await, so its synchronous part runs here.
checkRiskLimits(act, sess, q, ct, stps) ==
  IF act /\ sess # NoDoc
       /\ checkSessionLimits(sess, MaxConsecutiveLosses, DailyLossLimitPercent) = "stop"
    THEN stopSessionSync("risk_limit_breach", act, sess, q, ct, stps)
    ELSE [ran |-> FALSE, isActive |-> act, queue |-> q, stops |-> stps,
          detach |-> FALSE]

\* updatedSession.save() succeeded inside the transaction: this.session is
\* replaced by the updated document, checkRiskLimits runs, lastTradeFailed is
\* set, and the callback returns so that withTransaction commits.
SessionSaved(j) ==
  /\ Quiet
  /\ jobs[j].pc = "save"
  /\ LET job == jobs[j]
         r == checkRiskLimits(isActive, job.txdoc, tradeQueue, currentTrades, stops)
     IN /\ session' = job.txdoc
        /\ isActive' = r.isActive
        /\ tradeQueue' = r.queue
        /\ stops' = r.stops
        /\ feedListening' = IF r.detach THEN FALSE ELSE feedListening
        /\ jobs' = [DropQueued(jobs, tradeQueue, r) EXCEPT ![j].pc = "commit"]
        /\ lastTradeFailed' = (ProfitOrLoss(job.result, job.payout, job.stake) <= 0)
  /\ UNCHANGED <<stream, evaluation, limitCheck, budget, MAX_CONCURRENT_TRADES, currentTrades, micro, starts, dbSessions, dbTrades, ticks, failures,
                 stopCalls, stopDone, refusedStop, launched, venueCalls, finalWrites>>

\* A committed write to session document sid makes the snapshot of every other
\* open transaction that is about to write it stale.
MarkStale(js, j, sid) ==
  [k \in JobIds |-> IF k # j /\ js[k].pc = "update" /\ js[k].usid = sid
                      THEN [js[k] EXCEPT !.stale = TRUE]
                      ELSE js[k]]

\* The transaction committed: the Trade insert and the Session update become
\* visible together, and executeTrade returns.
TradeCommitted(j) ==
  /\ Quiet
  /\ jobs[j].pc = "commit"
  /\ LET job == jobs[j] IN
     /\ dbTrades' = dbTrades \cup {[job |-> j, session_id |-> job.tsid,
                                    result |-> job.result, stake |-> job.stake,
                                    payout |-> job.payout]}
     /\ dbSessions' = IF job.txdoc # NoDoc
                        THEN [dbSessions EXCEPT ![job.usid] = job.txdoc]
                        ELSE dbSessions
     /\ jobs' = [MarkStale(jobs, j, job.usid) EXCEPT
                   ![j] = [IdleJob EXCEPT !.pc = "resolved", !.outcome = "recorded"]]
  /\ micro' = Append(micro, j)
  /\ UNCHANGED <<stream, evaluation, limitCheck, budget, MAX_CONCURRENT_TRADES, isActive, session, tradeQueue, currentTrades, lastTradeFailed,
                 feedListening, stops, starts, ticks, failures, stopCalls, stopDone, refusedStop, launched,
                 venueCalls, finalWrites>>

\* The store failed inside the transaction (at the insert, the update, the save
\* or the commit): withTransaction aborts, both writes are discarded, and
\* executeTrade rethrows.
TransactionFailed(j) ==
  /\ Quiet
  /\ jobs[j].pc \in {"create", "update", "save", "commit"}
  /\ failures < budget.failures
  /\ failures' = failures + 1
  /\ jobs' = [jobs EXCEPT ![j] = [IdleJob EXCEPT !.pc = "resolved",
                                                 !.outcome = "store_error",
                                                 !.failedAt = jobs[j].pc]]
  /\ micro' = Append(micro, j)
  /\ UNCHANGED <<stream, evaluation, limitCheck, budget, MAX_CONCURRENT_TRADES, isActive, session, tradeQueue, currentTrades, lastTradeFailed,
                 feedListening, stops, starts, dbSessions, dbTrades, ticks,
                 stopCalls, stopDone, refusedStop, launched, venueCalls, finalWrites>>

\* ------------------------------------------------------------ stopSession, continued
\* stopSession(reason) called from outside (a user request, a shutdown, the end
\* of a run) or by the feed's 'error' listener.
StopEntry(reason) ==
  /\ Quiet
  /\ LET r == stopSessionSync(reason, isActive, session, tradeQueue, currentTrades, stops)
     IN /\ r.ran => stopCalls < budget.stopCalls
        /\ stopCalls' = IF r.ran THEN stopCalls + 1 ELSE stopCalls
        /\ refusedStop' = (refusedStop \/ (~r.ran /\ session.status \in TerminalStatuses))
        /\ isActive' = r.isActive
        /\ tradeQueue' = r.queue
        /\ stops' = r.stops
        /\ feedListening' = IF r.detach THEN FALSE ELSE feedListening
        /\ jobs' = DropQueued(jobs, tradeQueue, r)
  /\ UNCHANGED <<stream, evaluation, limitCheck, budget, MAX_CONCURRENT_TRADES, session, currentTrades, lastTradeFailed, micro, starts, dbSessions,
                 dbTrades, ticks, failures, stopDone, launched, venueCalls, finalWrites>>

StopCall(reason) == StopEntry(reason)

\* The feed emitted 'error' while the listeners were attached.
FeedError ==
  /\ feedListening
  /\ StopEntry("market_data_error")

\* Variant of NextWaitCycle: the loop without its waitCycles++.
SameWaitCycle(c) == c

\* waitCycles++ (line 166)
NextWaitCycle(c) == c + 1

\* The 500 ms timer of the wait loop fired: one more wait cycle; the loop goes
\* on while trades are in flight and fewer than MaxWaitCycles cycles have passed.
StopTimer(s) ==
  /\ Quiet
  /\ s \in 1..Len(stops)
  /\ stops[s].pc = "wait"
  /\ LET st == [stops[s] EXCEPT !.waitCycles = NextWaitCycle(@)] IN
     IF currentTrades > 0 /\ st.waitCycles < MaxWaitCycles
       THEN /\ stops' = [stops EXCEPT ![s] = st]
            /\ UNCHANGED feedListening
       ELSE /\ stops' = Running([stops EXCEPT ![s] = StopFinalizeIssue(st, session)])
            /\ feedListening' = FALSE
  /\ UNCHANGED <<stream, evaluation, limitCheck, budget, MAX_CONCURRENT_TRADES, isActive, session, tradeQueue, currentTrades, lastTradeFailed, jobs,
                 micro, starts, dbSessions, dbTrades, ticks, failures, stopCalls, stopDone, refusedStop,
                 launched, venueCalls, finalWrites>>

\* The finalizing findByIdAndUpdate (outside any transaction, so it waits for a
\* transaction that has written the document) answered: end time, final balance
\* and status are written in one update, this.session becomes the returned
\* document, and the finally block clears the active flag.
StopFinalized(s) ==
  /\ Quiet
  /\ s \in 1..Len(stops)
  /\ stops[s].pc = "update"
  /\ LET st == stops[s]
         doc == dbSessions[st.sid]
         upd == [doc EXCEPT !.session_end = TRUE,
                            !.final_balance = st.finalBalance,
                            !.status = FinalStatus(st.reason)]
     IN /\ ~LockedByOther(jobs, 0, st.sid)
        /\ IF doc # NoDoc
             THEN /\ dbSessions' = [dbSessions EXCEPT ![st.sid] = upd]
                  /\ session' = upd
                  /\ finalWrites' = [finalWrites EXCEPT ![st.sid] = @ + 1]
                  /\ jobs' = MarkStale(jobs, 0, st.sid)
             ELSE UNCHANGED <<dbSessions, session, finalWrites, jobs>>
        /\ stops' = Running([stops EXCEPT ![s].pc = "done"])
        /\ stopDone' = stopDone \cup {st.sid}
  /\ isActive' = FALSE
  /\ UNCHANGED <<stream, evaluation, limitCheck, budget, MAX_CONCURRENT_TRADES, tradeQueue, currentTrades, lastTradeFailed, feedListening, micro,
                 starts, dbTrades, ticks, failures, stopCalls, refusedStop, launched, venueCalls>>

\* Variant of StopFinalizeFailed: stopSession without its finally block.
StopFinalizeFailedNoFinally(s) ==
  /\ Quiet
  /\ s \in 1..Len(stops)
  /\ stops[s].pc = "update"
  /\ failures < budget.failures
  /\ failures' = failures + 1
  /\ stops' = Running([stops EXCEPT ![s].pc = "failed"])
  /\ stopDone' = stopDone \cup {stops[s].sid}
  /\ isActive' = isActive
  /\ UNCHANGED <<stream, evaluation, limitCheck, budget, MAX_CONCURRENT_TRADES, session, tradeQueue, currentTrades, lastTradeFailed, feedListening,
                 jobs, micro, starts, dbSessions, dbTrades, ticks, stopCalls, refusedStop,
                 launched, venueCalls, finalWrites>>

\* The finalizing update failed: the catch block logs, the finally block clears
\* the active flag; the persisted status stays as it was.
StopFinalizeFailed(s) ==
  /\ Quiet
  /\ s \in 1..Len(stops)
  /\ stops[s].pc = "update"
  /\ failures < budget.failures
  /\ failures' = failures + 1
  /\ stops' = Running([stops EXCEPT ![s].pc = "failed"])
  /\ stopDone' = stopDone \cup {stops[s].sid}
  /\ isActive' = FALSE
  /\ UNCHANGED <<stream, evaluation, limitCheck, budget, MAX_CONCURRENT_TRADES, session, tradeQueue, currentTrades, lastTradeFailed, feedListening,
                 jobs, micro, starts, dbSessions, dbTrades, ticks, stopCalls, refusedStop,
                 launched, venueCalls, finalWrites>>

\* ------------------------------------------------------------ specification
Next ==
  \/ \E i \in StartIds : StartCall(i)
  \/ \E i \in StartIds : StartSaved(i)
  \/ \E i \in StartIds : StartCommitted(i)
  \/ \E i \in StartIds : StartFailed(i)
  \/ HandleTick
  \/ JobFinally
  \/ \E j \in JobIds, res \in {"win", "loss"} : VenueReturn(j, res)
  \/ \E j \in JobIds : VenueFail(j)
  \/ \E j \in JobIds : TradeCreated(j)
  \/ \E j \in JobIds : SessionUpdated(j)
  \/ \E j \in JobIds : SessionSaved(j)
  \/ \E j \in JobIds : TradeCommitted(j)
  \/ \E j \in JobIds : TransactionFailed(j)
  \/ \E reason \in CallerReasons : StopCall(reason)
  \/ FeedError
  \/ \E s \in 1..(MaxStarts + MaxStopCalls) : StopTimer(s)
  \/ \E s \in 1..(MaxStarts + MaxStopCalls) : StopFinalized(s)
  \/ \E s \in 1..(MaxStarts + MaxStopCalls) : StopFinalizeFailed(s)

Spec == Init /\ [][Next]_vars

\* One session only.
SpecBurst == InitWith({BurstProfile}) /\ [][Next]_vars

\* One session with two ticks.
DrainProfile ==
  [ticks |-> RestartTicks, starts |-> 1, stopCalls |-> MaxStopCalls,
   failures |-> MaxFailures, serial |-> TRUE, initialBalance |-> InitialBalance]

\* One session in a host whose timers fire, whose promise reactions run and
\* whose store answers every request of a transaction that holds the Session
\* document and every finalizing update; the venue may never answer.
SpecDrain ==
  /\ InitWith({DrainProfile})
  /\ [][Next]_vars
  /\ WF_vars(JobFinally)
  /\ \A j \in JobIds : WF_vars(SessionSaved(j)) /\ WF_vars(TradeCommitted(j))
  /\ \A s \in 1..(MaxStarts + MaxStopCalls) :
        WF_vars(StopTimer(s)) /\ WF_vars(StopFinalized(s))

\* SpecDrain in an environment where, in addition, every launched execution
\* settles: the venue answers and the store answers each request of a
\* transaction.
SpecSettle ==
  /\ SpecDrain
  /\ \A j \in JobIds :
        /\ WF_vars(\E res \in {"win", "loss"} : VenueReturn(j, res))
        /\ WF_vars(TradeCreated(j))
        /\ WF_vars(SessionUpdated(j))

\* One session, with a sufficient or an insufficient initial balance.
SpecPoor == InitWith({BurstProfile, PoorProfile}) /\ [][Next]_vars

\* Every profile of callers and configurations.
SpecAll ==
  InitWith({BurstProfile, RestartProfile(FALSE), PoorProfile}) /\ [][Next]_vars

\* One session, with the configured or a tight initial balance.
SpecTight == InitWith({BurstProfile, TightProfile, ThinProfile}) /\ [][Next]_vars

\* Callers that never overlap startSession with another call.
SpecSerial == InitWith({BurstProfile, RestartProfile(TRUE)}) /\ [][Next]_vars

\* ------------------------------------------------------------ checkSessionLimits alone
\* The values from which the argument of one checkSessionLimits call is drawn.
LimitInitialBalances == {InitialBalance, 200}
LimitLiveBalances == {0, 40, 50, 60, InitialBalance, 120}
LimitLossCounts == 0..3
LimitMaxLosses == 0..3
LimitLossPercents == {0, DailyLossLimitPercent, 100}

\* currentSessionState as checkRiskLimits builds it: the snapshot of the session
\* and the two limits of the configuration.
LimitInputs ==
  { [state |-> [NewSession(1) EXCEPT !.initial_balance = ib, !.final_balance = fb,
                                     !.consecutive_losses = cl],
     max_consecutive_losses |-> ml, daily_loss_limit_percentage |-> lp,
     verdict |-> "none"] :
      ib \in LimitInitialBalances, fb \in LimitLiveBalances, cl \in LimitLossCounts,
      ml \in LimitMaxLosses, lp \in LimitLossPercents }

InitLimits ==
  /\ Constructed({BurstProfile})
  /\ limitCheck \in LimitInputs
  /\ evaluation = NoEvaluation
  /\ stream = NoStream

\* One call of checkSessionLimits on the drawn argument.
EvaluateLimits ==
  /\ limitCheck.verdict = "none"
  /\ limitCheck' =
       [limitCheck EXCEPT !.verdict =
          checkSessionLimits(limitCheck.state, limitCheck.max_consecutive_losses,
                             limitCheck.daily_loss_limit_percentage)]
  /\ UNCHANGED <<stream, evaluation, budget, MAX_CONCURRENT_TRADES, isActive, session, tradeQueue,
                 currentTrades, lastTradeFailed, feedListening, jobs, micro, stops, starts,
                 dbSessions, dbTrades, ticks, failures, stopCalls, stopDone, refusedStop,
                 launched, venueCalls, finalWrites>>

NextLimits == EvaluateLimits

SpecLimits == InitLimits /\ [][NextLimits]_vars

\* ------------------------------------------------------------ approveTrade alone
\* The values from which the arguments of one approveTrade call are drawn.
ApproveBalances == {0, BaseStake, 50, InitialBalance}
ApproveAmounts ==
  {Num(0 - 5), Num(0), Num(1), Num(BaseStake), Num(BaseStake + 1), Num(50),
   Num(InitialBalance), Num(InitialBalance + 1), NaN, Undefined, Text}

ApproveInputs ==
  { [fn |-> "approveTrade", session |-> [NewSession(1) EXCEPT !.final_balance = fb],
     amount |-> a, done |-> FALSE, result |-> FALSE] :
      fb \in ApproveBalances, a \in ApproveAmounts }

InitApprove ==
  /\ Constructed({BurstProfile})
  /\ limitCheck = NoCheck
  /\ evaluation \in ApproveInputs
  /\ stream = NoStream

\* One call of approveTrade on the drawn arguments; the function assigns to
\* neither of them.
EvaluateApprove ==
  /\ evaluation.fn = "approveTrade" /\ ~evaluation.done
  /\ evaluation' =
       [evaluation EXCEPT !.done = TRUE,
                          !.result = approveTradeValue(evaluation.session, evaluation.amount)]
  /\ UNCHANGED <<stream, limitCheck, budget, MAX_CONCURRENT_TRADES, isActive, session, tradeQueue,
                 currentTrades, lastTradeFailed, feedListening, jobs, micro, stops, starts,
                 dbSessions, dbTrades, ticks, failures, stopCalls, stopDone, refusedStop,
                 launched, venueCalls, finalWrites>>

NextApprove == EvaluateApprove

SpecApprove == InitApprove /\ [][NextApprove]_vars

\* ------------------------------------------------------------ the stake of one trade alone
\* The configurations and instance states from which one stake computation of
\* executeTrade is drawn.
StakeInputs ==
  { [fn |-> "stake", lastTradeFailed |-> ltf, consecutiveLosses |-> n,
     baseStake |-> b, martingaleMultiplier |-> m, done |-> FALSE,
     result |-> Undefined, venueStake |-> Undefined] :
      ltf \in BOOLEAN, n \in 0..3, m \in 1..3,
      b \in {Num(0 - 5), Num(0), Num(1), Num(5), Num(BaseStake), NaN, Undefined, Text} }

InitStake ==
  /\ Constructed({BurstProfile})
  /\ limitCheck = NoCheck
  /\ evaluation \in StakeInputs
  /\ stream = NoStream

\* TradingEngine.analyze: the amount of the analysis, `baseStake || 10`
AnalysisAmount(baseStake) == IF Truthy(baseStake) THEN baseStake ELSE Num(10)

\* The stake computation of executeTrade with martingale enabled, on a fresh
\* session: the stake applyMartingaleStrategy returns, and the stake handed to
\* the venue (undefined when approveTrade declines the analysis).
EvaluateStake ==
  /\ evaluation.fn = "stake" /\ ~evaluation.done
  /\ LET currentStake ==
           applyMartingaleStrategyValue(evaluation.lastTradeFailed,
                                        evaluation.consecutiveLosses,
                                        evaluation.baseStake,
                                        evaluation.martingaleMultiplier)
         approved == approveTradeValue(NewSession(1), AnalysisAmount(evaluation.baseStake))
     IN evaluation' =
          [evaluation EXCEPT !.done = TRUE, !.result = currentStake,
                             !.venueStake = IF approved THEN currentStake ELSE Undefined]
  /\ UNCHANGED <<stream, limitCheck, budget, MAX_CONCURRENT_TRADES, isActive, session, tradeQueue,
                 currentTrades, lastTradeFailed, feedListening, jobs, micro, stops, starts,
                 dbSessions, dbTrades, ticks, failures, stopCalls, stopDone, refusedStop,
                 launched, venueCalls, finalWrites>>

NextStake == EvaluateStake

SpecStake == InitStake /\ [][NextStake]_vars

\* ------------------------------------------------------------ MarketDataStream alone
\* One MarketDataStream object from its construction on.  Its owner, the
\* orchestrator, attaches its listeners and calls connect() once
\* (connectMarketData) and later calls disconnect() and removes the listeners
\* (stopSession); the socket closes or reports an error at any time.  Timers
\* fire in any order; an event that would set a timer comes only while fewer
\* than MaxTimers timers of that kind are pending.  `last` names the handler that ran in the last step and
\* `emitted` the events it emitted; `stopRequest` is the reason of the
\* stopSession call made by the orchestrator's 'error' listener.
MAX_RECONNECTS == 5

ConstructedStream ==
  [made |-> TRUE, reconnectAttempts |-> 0, isConnecting |-> FALSE, isConnected |-> FALSE,
   ticking |-> FALSE, openTimers |-> 0, reconnectTimers |-> 0, listening |-> FALSE,
   owner |-> "new", last |-> "constructor", emitted |-> {}, stopRequest |-> "none"]

\* this.emit(event); the orchestrator's 'error' listener calls
\* stopSession('market_data_error')
Emit(st, event) ==
  [st EXCEPT !.emitted = @ \cup {event},
             !.stopRequest = IF event = "error" /\ st.listening
                               THEN "market_data_error" ELSE @]

\* connect(): nothing while connecting or connected; else the open timer is set
connect(st) ==
  IF st.isConnecting \/ st.isConnected
    THEN st
    ELSE [st EXCEPT !.isConnecting = TRUE, !.openTimers = @ + 1]

onOpen(st) ==
  Emit([st EXCEPT !.isConnected = TRUE, !.isConnecting = FALSE,
                  !.reconnectAttempts = 0, !.ticking = TRUE], "open")

\* Variant of MayReconnect: reconnectAttempts <= MAX_RECONNECTS.
MayReconnectInclusive(attempts) == attempts <= MAX_RECONNECTS

\* _onClose: reconnectAttempts < MAX_RECONNECTS
MayReconnect(attempts) == attempts < MAX_RECONNECTS

onClose(st) ==
  LET closed == Emit([st EXCEPT !.isConnected = FALSE, !.isConnecting = FALSE,
                                !.ticking = FALSE], "close")
  IN IF MayReconnect(closed.reconnectAttempts)
       THEN [closed EXCEPT !.reconnectAttempts = @ + 1, !.reconnectTimers = @ + 1]
       ELSE Emit(closed, "error")

disconnect(st) ==
  Emit([st EXCEPT !.reconnectAttempts = MAX_RECONNECTS, !.ticking = FALSE,
                  !.isConnected = FALSE, !.isConnecting = FALSE], "close")

\* The start of a handler: nothing emitted yet.
Handler(st, name) == [st EXCEPT !.last = name, !.emitted = {}]

InitStream ==
  /\ Constructed({BurstProfile})
  /\ limitCheck = NoCheck
  /\ evaluation = NoEvaluation
  /\ stream = ConstructedStream

\* The orchestrator's own state does not change.
ManagerIdle ==
  UNCHANGED <<evaluation, limitCheck, budget, MAX_CONCURRENT_TRADES, isActive, session,
              tradeQueue, currentTrades, lastTradeFailed, feedListening, jobs, micro, stops,
              starts, dbSessions, dbTrades, ticks, failures, stopCalls, stopDone,
              refusedStop, launched, venueCalls, finalWrites>>

\* connectMarketData: the listeners are attached, then connect() is called.
ConnectMarketData ==
  /\ ManagerIdle
  /\ stream.owner = "new"
  /\ stream' = connect([Handler(stream, "connect") EXCEPT !.listening = TRUE,
                                                          !.owner = "connected"])

\* The 100 ms timer set by connect() fired.
OpenTimer ==
  /\ ManagerIdle
  /\ stream.openTimers > 0
  /\ LET st == [Handler(stream, "openTimer") EXCEPT !.openTimers = @ - 1]
     IN stream' = IF st.isConnecting THEN onOpen(st) ELSE st

\* The interval set by _simulateTicks fired.
TickTimer ==
  /\ ManagerIdle
  /\ stream.ticking
  /\ LET st == Handler(stream, "tickTimer")
     IN stream' = IF ~st.isConnected THEN [st EXCEPT !.ticking = FALSE]
                                     ELSE Emit(st, "tick")

\* The socket closed unexpectedly (_simulateClose, _onClose).
SocketClose ==
  /\ ManagerIdle
  /\ stream.reconnectTimers < MaxTimers
  /\ stream.isConnected \/ stream.isConnecting
  /\ stream' = onClose(Handler(stream, "_onClose"))

\* The socket reported an error (_onError).
SocketError ==
  /\ ManagerIdle
  /\ stream.reconnectTimers < MaxTimers
  /\ stream.owner # "new"
  /\ LET st == Handler(stream, "_onError")
     IN stream' = Emit(IF ~st.isConnected /\ ~st.isConnecting THEN onClose(st) ELSE st,
                       "error")

\* A reconnect timer set by _onClose fired: connect().
ReconnectTimer ==
  /\ ManagerIdle
  /\ stream.openTimers < MaxTimers
  /\ stream.reconnectTimers > 0
  /\ stream' = connect([Handler(stream, "reconnectTimer") EXCEPT !.reconnectTimers = @ - 1])

\* stopSession: disconnect(), then the listeners are removed.
StreamDisconnect ==
  /\ ManagerIdle
  /\ stream.owner = "connected"
  /\ stream' = [disconnect(Handler(stream, "disconnect")) EXCEPT
                  !.listening = FALSE, !.owner = "disconnected"]

NextStream ==
  \/ ConnectMarketData
  \/ OpenTimer
  \/ TickTimer
  \/ SocketClose
  \/ SocketError
  \/ ReconnectTimer
  \/ StreamDisconnect

SpecStream == InitStream /\ [][NextStream]_vars

\* ------------------------------------------------------------ properties
InFlightPcs == {"venue", "create", "update", "save", "commit", "resolved"}

\* C1: the in-flight count never exceeds the configured maximum of concurrent
\* trades, whatever the number of ticks and the order in which executions settle.
C1_InFlightBounded == currentTrades <= MAX_CONCURRENT_TRADES

\* C1 witness: a burst larger than the cap: the cap is reached with a job
\* still waiting in the queue.
C1_Witness ==
  /\ currentTrades = MAX_CONCURRENT_TRADES
  /\ MAX_CONCURRENT_TRADES = MaxConcurrent
  /\ tradeQueue # <<>>

\* C2: executions are launched in the order the ticks arrived (job ids count the
\* ticks): the launch history is increasing, and every job still queued arrived
\* after every job launched and after the jobs queued before it.
C2_DispatchInArrivalOrder ==
  /\ \A a, b \in 1..Len(launched) : a < b => launched[a] < launched[b]
  /\ \A a, b \in 1..Len(tradeQueue) : a < b => tradeQueue[a] < tradeQueue[b]
  /\ \A a \in 1..Len(launched), b \in 1..Len(tradeQueue) : launched[a] < tradeQueue[b]

\* C2 witness: every tick's job was launched, and a later job settled and was
\* recorded while an earlier one was still in flight.
C2_Witness ==
  /\ Len(launched) = budget.ticks
  /\ \E a, b \in JobIds : /\ a < b
                          /\ jobs[a].pc \in InFlightPcs
                          /\ jobs[b].pc = "done"
                          /\ jobs[b].outcome = "recorded"

\* ------------------------------------------------------------ persisted store, derived
TradesOf(sid) == {t \in dbTrades : t.session_id = sid}

RECURSIVE SumPnl(_)
\* Sum of profitOrLoss over a set of Trade records.
SumPnl(ts) ==
  IF ts = {} THEN 0
  ELSE LET t == CHOOSE x \in ts : TRUE
       IN ProfitOrLoss(t.result, t.payout, t.stake) + SumPnl(ts \ {t})

\* The Session deltas of exactly the Trade records of session sid are applied
\* to the committed Session document.
DeltasMatchTrades(sid) ==
  LET doc == dbSessions[sid]
      ts == TradesOf(sid)
  IN IF doc = NoDoc
       THEN ts = {}
       ELSE /\ doc.total_trades = Cardinality(ts)
            /\ doc.winning_trades = Cardinality({t \in ts : t.result = "win"})
            /\ doc.final_balance = doc.initial_balance + SumPnl(ts)

\* C3 (as claimed): whenever a trade outcome is recorded, the persisted
\* consecutive_losses of its session becomes 0 on a win and one more than its
\* value before on a loss.
C3_Claim ==
  [][\A t \in dbTrades' \ dbTrades :
        dbSessions'[t.session_id].consecutive_losses =
          IF t.result = "win" THEN 0
          ELSE dbSessions[t.session_id].consecutive_losses + 1]_vars

\* C4 (as claimed): in every committed state the Session document of each session
\* carries exactly the deltas of the Trade records of that session.
C4_Claim == \A sid \in SessionIds : DeltasMatchTrades(sid)

\* No transaction is between its session update and its commit.
NoOpenSessionWrite == \A k \in JobIds : jobs[k].pc \notin {"save", "commit"}

\* The in-memory handle agrees with the committed Session document it names.
HandleCommitted ==
  (session # NoDoc /\ dbSessions[session.id] # NoDoc) => session = dbSessions[session.id]

\* C5 (as claimed): once the transactional write of an outcome has failed, and
\* no other transaction is between its session update and its commit, the
\* in-memory Session handle holds committed data only.
C5_Claim ==
  \A j \in JobIds :
     (jobs[j].pc = "resolved" /\ jobs[j].outcome = "store_error" /\ NoOpenSessionWrite)
        => HandleCommitted

\* C6 (as claimed): while a stop procedure is in progress, a further stopSession
\* call does not start the procedure again.
C6_Claim == [][StopInProgress(stops) => Len(stops') <= Len(stops)]_vars

\* C7 (as claimed): a persisted terminal status never changes again, and each
\* session is finalized by at most one update.
C7_Claim ==
  [][\A sid \in SessionIds :
        /\ dbSessions[sid].status \in TerminalStatuses
             => dbSessions'[sid].status = dbSessions[sid].status
        /\ finalWrites'[sid] <= 1]_vars

\* Some stop call is at its finalizing update, and every such call was made
\* after an earlier call for the same session had run to its end.
LateStopFinalizing ==
  /\ \E s \in 1..Len(stops) : stops[s].pc = "update"
  /\ \A s \in 1..Len(stops) : stops[s].pc = "update" => stops[s].late

\* C8: a stop call made after an earlier stop call for the session has run to
\* its end changes nothing observable: it does not write the persisted Session
\* record, and the in-memory handle, the active flag, the pending queue and the
\* in-flight count are as the first call left them.
C8_Claim ==
  [][LateStopFinalizing =>
       /\ finalWrites' = finalWrites
       /\ (\E s \in 1..Len(stops) : stops[s].pc = "update" /\ stops[s].late
                                      /\ Len(stops') < Len(stops))
            => /\ dbSessions' = dbSessions
               /\ session' = session
               /\ isActive' = isActive
               /\ tradeQueue' = tradeQueue
               /\ currentTrades' = currentTrades]_vars

\* The terminal status that a stop reason is specified to give.
SpecifiedStatus(reason) ==
  CASE reason = "user_request" -> "stopped_user"
    [] reason \in {"risk_limit_breach", "market_data_error",
                   "emergency_system_shutdown"} -> "stopped_auto"
    [] OTHER -> "completed"

\* The session's live balance: the one the in-memory handle holds, or the
\* persisted one once the handle belongs to another session.
LiveBalance(sid) ==
  IF session.id = sid THEN session.final_balance ELSE dbSessions[sid].final_balance

\* The finalizing update of some stop call for session sid is applied in this step.
FinalizeStep(sid) == finalWrites'[sid] = finalWrites[sid] + 1

\* C9 (status part): the finalizing update writes end time, final balance and
\* the terminal status specified for the call's reason in one step.
C9_StatusByReason ==
  [][\A sid \in SessionIds : FinalizeStep(sid) =>
       \E s \in 1..Len(stops) :
          /\ stops[s].pc = "update" /\ stops[s].sid = sid
          /\ dbSessions'[sid].status = SpecifiedStatus(stops[s].reason)
          /\ dbSessions'[sid].session_end
          /\ dbSessions'[sid].final_balance = stops[s].finalBalance]_vars

\* C9: stop(reason) finalizes with the status specified for the reason, end
\* time, balance and status are written together, and the balance written is
\* the session's live balance at the time of the write.
C9_Claim ==
  [][\A sid \in SessionIds : FinalizeStep(sid) =>
       /\ \E s \in 1..Len(stops) :
            /\ stops[s].pc = "update" /\ stops[s].sid = sid
            /\ dbSessions'[sid].status = SpecifiedStatus(stops[s].reason)
       /\ dbSessions'[sid].session_end
       /\ dbSessions'[sid].final_balance = LiveBalance(sid)]_vars

\* A stopSession call went past its entry guard in this step.
StopRan == Len(stops') > Len(stops)

\* Jobs whose execution has been launched and has not settled.
Launched(js) == {j \in JobIds : js[j].pc \in InFlightPcs}

\* C10: a stopSession call that runs discards every job of the pending queue
\* and leaves the launched executions in flight and the in-flight count as they
\* were; a discarded job stays discarded and is never handed to the venue.
C10_Claim ==
  [][/\ StopRan =>
          /\ tradeQueue' = <<>>
          /\ \A j \in SeqToSet(tradeQueue) : jobs'[j].pc = "dropped"
          /\ Launched(jobs') = Launched(jobs)
          /\ currentTrades' = currentTrades
     /\ \A j \in JobIds :
          jobs[j].pc = "dropped" =>
             /\ jobs'[j].pc = "dropped"
             /\ j \notin SeqToSet(launched')
             /\ j \notin SeqToSet(venueCalls')]_vars

\* C10 witness: a stop discarded a queued job while the executions launched
\* before it were in flight (a job is queued only while the cap is reached),
\* and all of them later settled and were recorded; the venue never saw the
\* discarded job.
C10_Witness ==
  \E j \in JobIds :
     /\ j > 1
     /\ jobs[j].pc = "dropped"
     /\ \A k \in JobIds : k < j => jobs[k].pc = "done" /\ jobs[k].outcome = "recorded"
     /\ j \notin SeqToSet(venueCalls)

\* The counters and balance of a Session document.
Counters(doc) ==
  <<doc.final_balance, doc.total_trades, doc.winning_trades, doc.consecutive_losses>>

\* C11 (as claimed): once a session is finalized (its persisted status is
\* terminal), the commit of a trade that was still in flight does not change
\* the balance, total_trades, winning_trades or consecutive_losses of its record.
C11_Claim ==
  [][\A sid \in SessionIds :
        (dbSessions[sid].status \in TerminalStatuses /\ dbTrades' # dbTrades)
           => Counters(dbSessions'[sid]) = Counters(dbSessions[sid])]_vars

\* C12: every stopSession call that runs terminates: its drain loop takes at
\* most MaxWaitCycles wait cycles, and every stop procedure in progress comes to
\* its end, also when an execution in flight never settles.
C12_Claim ==
  /\ [](\A s \in 1..Len(stops) : stops[s].waitCycles <= MaxWaitCycles)
  /\ (stops # <<>>) ~> (stops = <<>>)

\* C12 witness: a stop procedure ran to its end for a session while an
\* execution was still waiting for the venue's answer.
C12_Witness ==
  /\ stops = <<>>
  /\ stopDone # {}
  /\ \E j \in JobIds : jobs[j].pc = "venue"

\* A stopSession call came to its end in this step.
StopEnded == Len(stops') < Len(stops)

\* C13: when the finalizing update of stopSession fails, the call still comes to
\* its end with the active flag cleared; nothing is
\* persisted, so the persisted record keeps the status it had, and the handle,
\* the queue and the executions in flight are untouched.  Every stopSession call
\* ends with the active flag cleared.
C13_Claim ==
  [][StopEnded =>
       /\ isActive' = FALSE
       /\ failures' # failures =>
            /\ feedListening' = feedListening
            /\ dbSessions' = dbSessions
            /\ dbTrades' = dbTrades
            /\ session' = session
            /\ tradeQueue' = tradeQueue
            /\ currentTrades' = currentTrades
            /\ jobs' = jobs]_vars

\* C13 witness: the session became active, a stop call for it ran to its end
\* without its finalizing update being applied: the instance is inactive and
\* the persisted status is still active.
C13_Witness ==
  \E sid \in SessionIds :
     /\ starts[sid].pc = "done"
     /\ sid \in stopDone
     /\ stops = <<>>
     /\ dbSessions[sid].status = "active"
     /\ finalWrites[sid] = 0
     /\ ~isActive

\* startSession call i is made in this step.
StartCalled(i) == starts[i].pc = "idle" /\ starts'[i].pc # "idle"

C15_Claim ==
  \A i \in StartIds : starts[i].pc = "failed" => dbSessions[starts[i].sid] = NoDoc

\* startSession call i returns in this step.
StartReturned(i) ==
  /\ startSessionOutcome(starts[i].pc) = "pending"
  /\ startSessionOutcome(starts'[i].pc) = "resolved"

\* The instance is active only with a committed Session document in its handle.
ActiveHasCommittedSession ==
  isActive => (session # NoDoc /\ dbSessions[session.id] # NoDoc)

\* C16 (as claimed): when a startSession call made on an inactive instance
\* returns and the store has worked (the Session document of the call is
\* committed), the instance is active, the feed is subscribed, and the handle
\* and the store hold the new session with status active, the initial balance
\* and no consecutive losses; and the instance is never active without a
\* committed Session document.
C16_Claim ==
  [][/\ \A i \in StartIds :
          (StartReturned(i) /\ starts[i].pc = "commit"
             /\ dbSessions'[starts[i].sid] # NoDoc) =>
             /\ isActive'
             /\ feedListening'
             /\ session' = NewSession(starts[i].sid)
             /\ dbSessions'[starts[i].sid] = NewSession(starts[i].sid)
     /\ ActiveHasCommittedSession']_vars

\* The persisted counters of session sid agree with its Trade records.
CountersMatchTrades(sid) ==
  LET doc == dbSessions[sid]
      ts == TradesOf(sid)
      wins == {t \in ts : t.result = "win"}
      losses == {t \in ts : t.result = "loss"}
  IN IF doc = NoDoc
       THEN ts = {}
       ELSE /\ doc.total_trades = Cardinality(ts)
            /\ doc.total_trades = doc.winning_trades + Cardinality(losses)
            /\ doc.winning_trades = Cardinality(wins)
            /\ doc.total_trades >= doc.winning_trades

\* C17 (as claimed): in every committed state total_trades of each session
\* equals winning_trades plus its recorded losses and equals the number of its
\* Trade records, and neither counter ever decreases.
C17_Claim ==
  [][\A sid \in SessionIds :
        /\ CountersMatchTrades(sid)'
        /\ dbSessions[sid] # NoDoc =>
             /\ dbSessions'[sid].total_trades >= dbSessions[sid].total_trades
             /\ dbSessions'[sid].winning_trades >= dbSessions[sid].winning_trades]_vars

\* The persisted balance of session sid is its initial balance plus the profit
\* or loss of each of its Trade records.
BalanceMatchesTrades(sid) ==
  dbSessions[sid] # NoDoc =>
     dbSessions[sid].final_balance =
        dbSessions[sid].initial_balance + SumPnl(TradesOf(sid))

\* C18 (as claimed): the persisted balance of a session changes only in a step
\* that records a trade outcome, and in every committed state it equals the
\* initial balance plus the sum of the profits and losses of the recorded trades.
C18_Claim ==
  [][\A sid \in SessionIds :
        /\ BalanceMatchesTrades(sid)'
        /\ (dbSessions[sid] # NoDoc
              /\ dbSessions'[sid].final_balance # dbSessions[sid].final_balance)
             => dbTrades' # dbTrades]_vars

\* The recorded trades of session sid have reached the limit of consecutive
\* losses.
LossLimitRecorded(sid) ==
  /\ dbSessions[sid] # NoDoc
  /\ dbSessions[sid].consecutive_losses >= MaxConsecutiveLosses

\* The session was closed automatically.
ClosedAuto(sid) ==
  dbSessions[sid].status = "stopped_auto" /\ dbSessions[sid].session_end

\* C19: limits are evaluated when a trade's session update is saved: if the
\* limit of consecutive losses is reached on an active instance, the instance
\* is deactivated, the queue is emptied and the stop procedure starts in the
\* same step; while the instance is inactive no job is queued or handed to the
\* venue; and, unless the store fails or a stop is also requested from outside,
\* once the limit is reached by recorded losses the session ends with persisted
\* status stopped_auto and its end time set.
C19_Claim ==
  /\ [][\A j \in JobIds :
          (jobs[j].pc = "save" /\ jobs'[j].pc = "commit" /\ isActive
             /\ jobs[j].txdoc.consecutive_losses >= MaxConsecutiveLosses) =>
             /\ ~isActive'
             /\ tradeQueue' = <<>>
             /\ \E s \in 1..Len(stops') : stops'[s].reason = "risk_limit_breach"]_vars
  /\ [][~isActive => /\ venueCalls' = venueCalls
                     /\ Len(tradeQueue') <= Len(tradeQueue)]_vars
  /\ \A sid \in SessionIds :
        LossLimitRecorded(sid) ~> (ClosedAuto(sid) \/ failures > 0 \/ stopCalls > 0)

\* C19 witness: the limit of consecutive losses was reached by recorded losses
\* with no store failure and no stop requested from outside, the session was
\* closed automatically, and exactly the losing trades that reached the limit
\* are recorded for it.
C19_Witness ==
  \E sid \in SessionIds :
     /\ LossLimitRecorded(sid)
     /\ ClosedAuto(sid)
     /\ failures = 0 /\ stopCalls = 0
     /\ Cardinality(TradesOf(sid)) = MaxConsecutiveLosses


\* The two conditions under which the session limits call for a stop.
LimitBreached(c) ==
  \/ c.state.consecutive_losses >= c.max_consecutive_losses
  \/ (c.state.initial_balance - c.state.final_balance) * 100
        >= c.state.initial_balance * c.daily_loss_limit_percentage

\* C20: checkSessionLimits returns stop exactly when the consecutive losses
\* have reached the limit or the loss has reached the daily fraction of the
\* initial balance, for every snapshot and every limit, a limit of 0 included;
\* otherwise it returns continue.
C20_Claim ==
  limitCheck.verdict # "none" =>
     limitCheck.verdict = (IF LimitBreached(limitCheck) THEN "stop" ELSE "continue")

\* The stake is a number greater than 0 and not greater than the live balance.
StakeAcceptable(amount, sess) ==
  amount.t = "number" /\ amount.v > 0 /\ amount.v <= sess.final_balance

\* C21: approveTrade returns false when the stake is 0, negative, not numeric,
\* NaN or greater than the live balance, and true otherwise, a stake equal to
\* the balance included; the call changes neither the session nor the signal.
C21_Claim ==
  /\ [](evaluation.fn = "approveTrade" /\ evaluation.done =>
          (evaluation.result <=> StakeAcceptable(evaluation.amount, evaluation.session)))
  /\ [][evaluation.fn = "approveTrade" =>
          /\ evaluation'.session = evaluation.session
          /\ evaluation'.amount = evaluation.amount]_vars

\* A stake computation on a base stake that is a number greater than 0 was made.
StakeComputed ==
  evaluation.fn = "stake" /\ evaluation.done /\ GreaterThan(evaluation.baseStake, 0)

\* C22: for a base stake greater than 0, applyMartingaleStrategy returns
\* baseStake * multiplier^n when the last trade failed and baseStake when it
\* did not, for every n >= 0.
C22_Claim ==
  StakeComputed =>
     evaluation.result =
        Num(IF evaluation.lastTradeFailed
              THEN evaluation.baseStake.v
                     * (evaluation.martingaleMultiplier ^ evaluation.consecutiveLosses)
              ELSE evaluation.baseStake.v)

\* C22 witness: after a failed trade and three consecutive losses a base stake
\* of 10 with multiplier 2 gave a stake of 80.
C22_Witness ==
  /\ StakeComputed
  /\ evaluation.lastTradeFailed /\ evaluation.consecutiveLosses = 3
  /\ evaluation.baseStake = Num(10) /\ evaluation.martingaleMultiplier = 2
  /\ evaluation.result = Num(80)

\* A stake computation on a base stake that is not a number greater than 0 was
\* made.
InvalidStakeComputed ==
  evaluation.fn = "stake" /\ evaluation.done /\ ~GreaterThan(evaluation.baseStake, 0)

\* C23: for a base stake that is 0, negative or not a number the stake
\* computation falls back to the minimum stake of 1: that is the stake returned
\* and the stake handed to the venue, never a non-positive one.
C23_Claim ==
  InvalidStakeComputed =>
     evaluation.result = Num(1) /\ evaluation.venueStake = Num(1)

\* The .finally reaction of job j runs in this step.
FinallyOf(j) == micro # <<>> /\ Head(micro) = j /\ jobs'[j].pc = "done"

\* The reaction released one slot and handed the oldest queued jobs to
\* executeTrade until the queue was empty or every slot was taken.
SlotReleasedAndRefilled ==
  LET n == Min(Len(tradeQueue), MAX_CONCURRENT_TRADES - (currentTrades - 1))
  IN /\ currentTrades' = currentTrades - 1 + n
     /\ launched' = launched \o SubSeq(tradeQueue, 1, n)
     /\ tradeQueue' = SubSeq(tradeQueue, n + 1, Len(tradeQueue))

Declined(j) == jobs[j].outcome # "rejected" /\ jobs'[j].outcome = "rejected"

\* C25: when approveTrade declines a job, the venue is never called and no
\* Trade record is ever written for it; the declining step changes neither the
\* Session record nor the in-memory handle, leaves the instance active and
\* queues the job's .finally reaction, which releases the slot and dispatches
\* the queued jobs that fit.
C25_Claim ==
  /\ [](\A j \in JobIds : jobs[j].outcome = "rejected" =>
           /\ j \notin SeqToSet(venueCalls)
           /\ \A t \in dbTrades : t.job # j)
  /\ [][\A j \in JobIds :
          /\ Declined(j) =>
                /\ dbTrades' = dbTrades /\ dbSessions' = dbSessions
                /\ session' = session
                /\ isActive /\ isActive'
                /\ j \in SeqToSet(micro')
          /\ (jobs[j].outcome = "rejected" /\ FinallyOf(j)) =>
                SlotReleasedAndRefilled]_vars

\* C25 witness: two jobs were declined one after the other, both slots were
\* released, the venue was never called, nothing was recorded and the session
\* is still active.
C25_Witness ==
  /\ jobs[1].outcome = "rejected" /\ jobs[1].pc = "done"
  /\ jobs[2].outcome = "rejected" /\ jobs[2].pc = "done"
  /\ currentTrades = 0 /\ venueCalls = <<>> /\ dbTrades = {}
  /\ isActive /\ session.status = "active" /\ dbSessions[session.id].status = "active"

\* C26: once the recording of a trade has failed in the store and the job's
\* execution path has ended, the instance is no longer active (the failure was
\* escalated to stopSession), so no further job is handed to the venue.
C26_Claim ==
  /\ [](\A j \in JobIds :
          (jobs[j].outcome = "store_error" /\ jobs[j].pc = "done") => ~isActive)
  /\ [][(\E j \in JobIds : jobs[j].outcome = "store_error" /\ jobs[j].pc = "done")
          => venueCalls' = venueCalls]_vars

\* No value occurs twice in the sequence.
NoRepeat(q) == \A a, b \in 1..Len(q) : a # b => q[a] # q[b]

\* C27: the venue is called at most once for each job, and exactly once for
\* every job that was dispatched while the instance was active and that
\* approveTrade accepted; a job once dispatched is never queued or dispatched
\* again, whether its execution failed or not.
C27_Claim ==
  /\ NoRepeat(venueCalls)
  /\ NoRepeat(launched)
  /\ SeqToSet(launched) \cap SeqToSet(tradeQueue) = {}
  /\ SeqToSet(venueCalls) \subseteq SeqToSet(launched)
  /\ \A j \in SeqToSet(launched) :
        j \in SeqToSet(venueCalls) <=> jobs[j].outcome \notin {"aborted", "rejected"}

\* C27 witness: the venue call of the first job failed, a later job was
\* dispatched and recorded, and the venue was called once for each of them.
C27_Witness ==
  /\ jobs[1].outcome = "venue_error" /\ jobs[1].pc = "done"
  /\ jobs[2].outcome = "recorded" /\ jobs[2].pc = "done"
  /\ venueCalls = <<1, 2>>
  /\ tradeQueue = <<>> /\ currentTrades = 0


\* C28: the reconnect attempt counter never exceeds the maximum; a successful
\* open resets it to 0; a close that finds the counter at the maximum sets no
\* reconnect timer and emits 'error', on which the orchestrator's listener
\* calls stopSession with reason market_data_error, whose terminal status is
\* stopped_auto.
C28_Claim ==
  /\ [](stream.reconnectAttempts <= MAX_RECONNECTS)
  /\ [][/\ "open" \in stream'.emitted => stream'.reconnectAttempts = 0
        /\ (stream'.last = "_onClose" /\ stream.reconnectAttempts = MAX_RECONNECTS) =>
              /\ stream'.reconnectTimers = stream.reconnectTimers
              /\ stream'.reconnectAttempts = MAX_RECONNECTS
              /\ "error" \in stream'.emitted
              /\ stream.listening =>
                    /\ stream'.stopRequest = "market_data_error"
                    /\ FinalStatus(stream'.stopRequest) = "stopped_auto"]_vars

\* C28 witness: the socket closed while the counter stood at the maximum after
\* five reconnects without an open, no timer is pending, 'error' was emitted
\* and the orchestrator asked for the stop.
C28_Witness ==
  /\ stream.last = "_onClose" /\ "error" \in stream.emitted
  /\ stream.owner = "connected"
  /\ stream.reconnectAttempts = MAX_RECONNECTS
  /\ stream.reconnectTimers = 0
  /\ stream.stopRequest = "market_data_error"

\* C29: after disconnect() the counter is at the maximum and the stream is
\* never connecting or connected again and emits no tick, whatever timer was
\* pending at the disconnect (the owner never calls connect() on it again).
C29_Claim ==
  stream.owner = "disconnected" =>
     /\ stream.reconnectAttempts = MAX_RECONNECTS
     /\ ~stream.isConnecting /\ ~stream.isConnected
     /\ ~stream.ticking /\ "tick" \notin stream.emitted

\* C30: a queued job never waits while a slot is free and no completion is
\* pending; every completion of a launched execution releases its slot and
\* dispatches the queued jobs that fit; and, when every launched execution
\* settles, every queued job is eventually dispatched or discarded by a stop.
C30_Claim ==
  /\ [](tradeQueue # <<>> => currentTrades >= MAX_CONCURRENT_TRADES \/ micro # <<>>)
  /\ [][\A j \in JobIds : FinallyOf(j) => SlotReleasedAndRefilled]_vars
  /\ \A j \in JobIds : (jobs[j].pc = "queued") ~> (jobs[j].pc # "queued")

\* C30 witness: with one slot, the second job waits in the queue while the
\* first, whose trade was recorded, has settled and its reaction is pending.
C30_Witness ==
  /\ MAX_CONCURRENT_TRADES = 1
  /\ tradeQueue = <<2>> /\ jobs[2].pc = "queued"
  /\ currentTrades = 1 /\ micro = <<1>>
  /\ jobs[1].outcome = "recorded"

\* ------------------------------------------------------------ C31
\* The jobs handed to executeTrade by one step, in the order of their launch.
NewlyLaunched == SubSeq(launched', Len(launched) + 1, Len(launched'))

\* A step that delivers a tick.
TickDelivered == ticks' = ticks + 1

\* C31: while the session is active, a delivered tick is appended to the tail
\* of the queue whatever the queue length and the in-flight count: the old
\* queue followed by the new job is exactly the jobs launched by the step
\* followed by the new queue, and when the in-flight count is at the maximum
\* the step launches nothing and the new queue is the old one plus the job.
C31_Claim ==
  [][(TickDelivered /\ isActive /\ session # NoDoc) =>
       /\ Append(tradeQueue, ticks') = NewlyLaunched \o tradeQueue'
       /\ jobs'[ticks'].pc # "ignored"
       /\ (currentTrades >= MAX_CONCURRENT_TRADES =>
             /\ tradeQueue' = Append(tradeQueue, ticks')
             /\ currentTrades' = currentTrades
             /\ launched' = launched)]_vars

\* A tick has been queued behind another one while the in-flight count is at
\* the maximum.
C31_Witness ==
  /\ isActive
  /\ currentTrades = MAX_CONCURRENT_TRADES
  /\ Len(tradeQueue) >= 2
  /\ tradeQueue[Len(tradeQueue)] = ticks

\* ------------------------------------------------------------ C32
\* C32: a tick delivered while the instance is not active is a no-op: nothing
\* is enqueued or dispatched, and the queue, the in-flight count, the session
\* handle and the persisted records are unchanged.
C32_Claim ==
  [][(TickDelivered /\ ~isActive) =>
       /\ jobs'[ticks'].pc = "ignored"
       /\ UNCHANGED <<tradeQueue, currentTrades, session, lastTradeFailed,
                      launched, venueCalls, micro, dbSessions, dbTrades>>]_vars

\* A tick was delivered and ignored while a stop was waiting for the in-flight
\* trades, the feed being still connected.
C32_Witness ==
  /\ ~isActive
  /\ feedListening
  /\ StopInProgress(stops)
  /\ ticks > 0
  /\ jobs[ticks].pc = "ignored"

\* ------------------------------------------------------------ C33
\* The persisted Trade records of job j.
RecordsOf(j) == {t \in dbTrades : t.job = j}

\* The number of consecutive losses recorded for the trades sent before job
\* j + 1, counted backwards from j; jobs that left no Trade record (never
\* sent, or the venue call failed) count for nothing.
RECURSIVE LossRun(_)
LossRun(j) ==
  IF j = 0 THEN 0
  ELSE IF \E t \in RecordsOf(j) : t.result = "loss" THEN 1 + LossRun(j - 1)
  ELSE IF \E t \in RecordsOf(j) : t.result = "win" THEN 0
  ELSE LossRun(j - 1)

\* The stake the martingale rule gives to job j.
MartingaleStake(j) == BaseStake * Pow(MartingaleMultiplier, LossRun(j - 1))

\* Trades settle one at a time and every settlement is persisted.
OneAtATime == MAX_CONCURRENT_TRADES = 1 /\ failures = 0

\* C33: with martingale enabled and trades settling one at a time, the stake
\* sent to the venue is baseStake for the first trade and after a win, and
\* baseStake * multiplier^k after the k-th consecutive loss.
C33_Claim ==
  OneAtATime =>
    /\ \A t \in dbTrades : t.stake = MartingaleStake(t.job)
    /\ \A j \in JobIds : jobs[j].pc = "venue" => jobs[j].stake = MartingaleStake(j)

\* Trades settling one at a time: a trade was sent with the multiplied stake
\* after a loss, and another with the base stake after a win.
C33_Witness ==
  /\ OneAtATime
  /\ \E t \in dbTrades : LossRun(t.job - 1) = 1 /\ t.stake = BaseStake * MartingaleMultiplier
  /\ \E t, u \in dbTrades : t.job = u.job + 1 /\ u.result = "win" /\ t.stake = BaseStake

\* ------------------------------------------------------------ C34
\* The jobs a step hands to the venue.
NewVenueCalls == SubSeq(venueCalls', Len(venueCalls) + 1, Len(venueCalls'))

\* C34: the risk approval covers the executed stake: every venue call is made
\* with a stake that is positive and not greater than the live balance of the
\* session handle the approval was given for.
C34_Claim ==
  [][\A j \in SeqToSet(NewVenueCalls) :
       /\ jobs'[j].stake > 0
       /\ jobs'[j].stake <= session.final_balance]_vars

\* ------------------------------------------------------------ C35
\* C35: the session's live balance never becomes negative, in the handle or in
\* the persisted record, whatever the number of trades in flight and their
\* outcomes.
C35_Claim ==
  /\ session # NoDoc => session.final_balance >= 0
  /\ \A s \in SessionIds : dbSessions[s] # NoDoc => dbSessions[s].final_balance >= 0

\* ------------------------------------------------------------ C36
\* The launched executions whose .finally reaction has not run yet.
Outstanding == {j \in JobIds : jobs[j].pc \in InFlightPcs}

\* The executions whose .finally reaction has run.
Completed == {j \in JobIds : jobs[j].pc = "done"}

\* C36: the in-flight counter equals the number of launched executions that
\* have not completed: it is never negative, every launched job is either
\* outstanding or completed and never both, a completed job has been counted
\* down once, and the counter is 0 whenever no execution is outstanding.
C36_Claim ==
  /\ currentTrades = Cardinality(Outstanding)
  /\ currentTrades >= 0
  /\ SeqToSet(launched) = Outstanding \cup Completed
  /\ NoRepeat(launched)
  /\ Len(launched) = currentTrades + Cardinality(Completed)
  /\ (Outstanding = {} => currentTrades = 0)

\* Executions have completed after an early abort and after a venue answer,
\* and none is outstanding.
C36_Witness ==
  /\ currentTrades = 0
  /\ \E j \in Completed : jobs[j].outcome = "aborted"
  /\ \E j \in Completed : jobs[j].outcome \in {"recorded", "venue_error", "store_error"}

\* ------------------------------------------------------------ C37
\* The transaction of job j commits in this step.
CommitOf(j) == jobs[j].pc = "commit" /\ jobs'[j].outcome = "recorded"

\* C37: every Trade record and every Session delta is applied to the session
\* that was active when the trade's job was dispatched: the committed Trade
\* carries that session's id and the committed Session update is an update of
\* that session's record.
C37_Claim ==
  [][\A j \in JobIds :
       CommitOf(j) => /\ jobs[j].tsid = jobs[j].dsid
                      /\ jobs[j].txdoc # NoDoc
                      /\ jobs[j].usid = jobs[j].dsid]_vars

\* ------------------------------------------------------------ C38
\* A startSession call other than i has not finished.
StartPendingBeside(i) ==
  \E k \in StartIds : k # i /\ startSessionOutcome(starts[k].pc) = "pending"
                            /\ starts[k].pc # "idle"

\* C38: a startSession call issued before another one has finished creates no
\* second Session record and does not overwrite the session handle, and the
\* failure of a startSession call never deactivates an active instance.
C38_Claim ==
  [][\A i \in StartIds :
       /\ (StartCalled(i) /\ StartPendingBeside(i)) =>
             /\ session' = session
             /\ starts'[i].pc = "refused"
       /\ (isActive /\ starts[i].pc # "failed" /\ starts'[i].pc = "failed") =>
             isActive']_vars

\* ------------------------------------------------------------ C39
\* C39: whenever the instance is not active the pending queue is empty.
C39_Claim == ~isActive => tradeQueue = <<>>

\* ------------------------------------------------------------ C40
\* The handle and the persisted record of the same session agree on the
\* balance and the counters.
HandleAgrees ==
  LET doc == dbSessions[session.id]
  IN /\ session.final_balance = doc.final_balance
     /\ session.total_trades = doc.total_trades
     /\ session.winning_trades = doc.winning_trades
     /\ session.consecutive_losses = doc.consecutive_losses

\* C40: whenever no trade is in flight, the in-memory Session handle agrees
\* with the persisted Session record on balance, total_trades, winning_trades
\* and consecutive_losses.
C40_Claim ==
  (currentTrades = 0 /\ session # NoDoc /\ dbSessions[session.id] # NoDoc) =>
     HandleAgrees

====
